---- MODULE Spec2Model ----
(***************************************************************************)
(* Model of lib/compiler.js of gulp-tsc: the compile() pipeline of a       *)
(* Compiler instance (abort checks, temporary directory, tree keeper file, *)
(* argument file, tsc process, output stream, cleanup) and the process     *)
(* wide registry Compiler.running / Compiler.aborted /                     *)
(* Compiler.abortCallbacks.                                                *)
(*                                                                         *)
(* One action is one turn of the event loop: the synchronous code that     *)
(* runs when an asynchronous operation calls back.                         *)
(***************************************************************************)
EXTENDS Integers, Sequences, FiniteSets, TLC

\* ---------------------------------------------------------------- bounds
NumCompilers  == 2     \* Compiler instances that may call compile()
MaxAbortCalls == 2     \* calls of Compiler.abortAll
MaxExitCode   == 2     \* exit codes of the tsc process are 0..MaxExitCode
MaxArtifacts  == 1     \* files the output stream can deliver per invocation

Compilers == 1..NumCompilers
ExitCodes == 0..MaxExitCode
CallbackIds == 1..MaxAbortCalls
NoCallback == 0        \* abortAll() called without a callback

NoExit == -1           \* the process has not emitted 'exit'

Null == "null"
NoJob == "none"        \* no invocation is followed with its data
NoError == <<"none">>
AbortError == <<"aborted">>
ExitError(code) == <<"tsc command has exited with code:", code>>

\* The options the pipeline reads: safe (line 123), keepTree/out and the
\* number of source files (line 159).
Configurations ==
  { [safe |-> FALSE, keepTree |-> TRUE,  out |-> Null,     sourceFiles |-> 1],
    [safe |-> TRUE,  keepTree |-> TRUE,  out |-> Null,     sourceFiles |-> 1],
    [safe |-> FALSE, keepTree |-> FALSE, out |-> Null,     sourceFiles |-> 1],
    [safe |-> TRUE,  keepTree |-> TRUE,  out |-> "out.js", sourceFiles |-> 1] }

VARIABLES
  Compiler,    \* the statics: running, aborted, abortCallbacks; fired is the
               \* log of the abort callbacks invoked so far (fn.call)
  inv,         \* inv[i]: Compiler instance i and its invocation of compile()
  abortCalls,  \* number of abortAll calls made so far
  passed,      \* the callbacks passed to abortAll so far
  job,         \* one invocation followed with its data: options, source
               \* files, argument list, emitted files, published files
  stack        \* the drains of _allAborted in progress, innermost first

vars == <<Compiler, inv, abortCalls, passed, job, stack>>

\* The completion callback has not been called
NotCalled == [called |-> FALSE, err |-> NoError, tempExists |-> FALSE, keeperExists |-> FALSE]

\* ------------------------------------------------------- Compiler instance
\* pc is the continuation the invocation waits for:
\*   "idle"    compile() not called yet
\*   "check1".."check5"  a checkAborted task is scheduled
\*   "mkdir"   temp.mkdir outstanding
\*   "keeper"  temp.open outstanding
\*   "args"    getVersion / fs.writeFile outstanding
\*   "tsc"     the tsc process is running
\*   "output"  processOutputFiles streams the emitted files
\*   "done"    finish() has run
NewCompiler(o) ==
  [ pc               |-> "idle",
    options          |-> o,
    tempDestination  |-> Null,
    tscArgumentsFile |-> Null,
    treeKeeperFile   |-> Null,
    tempExists       |-> FALSE,   \* the temporary directory is on disk
    keeperExists     |-> FALSE,   \* the tree keeper file is on disk
    endListener      |-> FALSE,   \* the once('end') listener of _start is attached
    proc             |-> "none",  \* none | running | errored ('error' was
                                  \* emitted on the instance) | exited
    exitCode         |-> NoExit,  \* the code of the process's 'exit' event
    err              |-> NoError, \* the error the waterfall ended with
    stream           |-> "none",  \* none | flowing | ended | errored
    startedAborted   |-> FALSE,   \* Compiler.aborted when compile() was called
    published        |-> 0,       \* 'data' events emitted
    events           |-> <<>>,    \* cleanup / end / callback, in order
    observed         |-> NotCalled ]  \* what the completion callback was given

DefaultOptions == CHOOSE o \in Configurations : ~o.safe /\ o.keepTree /\ o.out = Null

Init ==
  /\ Compiler = [running |-> 0, aborted |-> FALSE, abortCallbacks |-> <<>>, fired |-> <<>>]
  /\ inv = [i \in Compilers |-> NewCompiler(DefaultOptions)]
  /\ abortCalls = 0
  /\ passed = {}
  /\ job = NoJob
  /\ stack = <<>>

\* ------------------------------------------------------------ the registry
\* Compiler.isAborted
isAborted(C) == C.aborted

\* Faulty variant: _allAborted leaves the flag set
allAborted_KeepsFlag(C, via) ==
  LET callbacks == C.abortCallbacks
  IN [C EXCEPT !.abortCallbacks = <<>>,
               !.fired = @ \o [k \in 1..Len(callbacks) |->
                                 [cb |-> callbacks[k], via |-> via]]]

\* Compiler._allAborted: take the queue, reset the flag and the queue, then
\* call every callback in order. via records the caller for the log.
Compiler_allAborted(C, via) ==
  LET callbacks == C.abortCallbacks
  IN [C EXCEPT !.aborted = FALSE,
               !.abortCallbacks = <<>>,
               !.fired = @ \o [k \in 1..Len(callbacks) |->
                                 [cb |-> callbacks[k], via |-> via]]]

\* Faulty variant: abortAll drains whatever is running
abortAll_DrainsAlways(C, callback) ==
  LET c1 == [C EXCEPT !.aborted = TRUE]
      c2 == IF callback # NoCallback
              THEN [c1 EXCEPT !.abortCallbacks = Append(@, callback)]
              ELSE c1
  IN Compiler_allAborted(c2, "abortAll")

\* Faulty variant: abortAll gives up on what is running
abortAll_ResetsRunning(C, callback) ==
  LET c1 == [C EXCEPT !.aborted = TRUE, !.running = 0]
      c2 == IF callback # NoCallback
              THEN [c1 EXCEPT !.abortCallbacks = Append(@, callback)]
              ELSE c1
  IN Compiler_allAborted(c2, "abortAll")

\* Compiler.abortAll(callback)
Compiler_abortAll(C, callback) ==
  LET c1 == [C EXCEPT !.aborted = TRUE]
      c2 == IF callback # NoCallback
              THEN [c1 EXCEPT !.abortCallbacks = Append(@, callback)]
              ELSE c1
  IN IF c2.running = 0 THEN Compiler_allAborted(c2, "abortAll") ELSE c2

\* Faulty variant: _start does not count
start_NoIncrement(C) == C

\* Compiler._start: the increment
Compiler_start(C) == [C EXCEPT !.running = @ + 1]

\* Faulty variant: the last 'end' does not drain
endHandler_NoDrain(C) == [C EXCEPT !.running = @ - 1]

\* Faulty variant: every 'end' drains
endHandler_DrainsEarly(C) ==
  LET c1 == [C EXCEPT !.running = @ - 1]
  IN IF c1.aborted THEN Compiler_allAborted(c1, "end") ELSE c1

\* Compiler._start: the once('end') listener
endHandler(C) ==
  LET c1 == [C EXCEPT !.running = @ - 1]
  IN IF c1.running = 0 /\ c1.aborted THEN Compiler_allAborted(c1, "end") ELSE c1

\* ------------------------------------------------------------ the pipeline
\* A step's result: the instance and the statics after it.
Result(s, C) == [s |-> s, C |-> C]

\* Faulty variant: checkAborted never looks at the flag
checkAborted_Never(C) == NoError

\* Compiler.prototype.checkAborted: the error it calls back with
checkAborted(C) == IF isAborted(C) THEN AbortError ELSE NoError

\* Faulty variant: cleanup forgets the temporary directory
cleanup_KeepsTemp(s) ==
  [s EXCEPT !.keeperExists = IF s.treeKeeperFile # Null THEN FALSE ELSE @,
            !.events       = Append(@, "cleanup")]

\* Compiler.prototype.cleanup: rimraf.sync of the temporary directory and
\* unlinkSync of the tree keeper file; both throw on a null path and the
\* exception is swallowed.
cleanup(s) ==
  [s EXCEPT !.tempExists   = IF s.tempDestination # Null THEN FALSE ELSE @,
            !.keeperExists = IF s.treeKeeperFile # Null THEN FALSE ELSE @,
            !.events       = Append(@, "cleanup")]

\* this.emit('end'): runs the listener _start attached, once
emitEnd(s, C) ==
  Result([s EXCEPT !.events = Append(@, "end"), !.endListener = FALSE],
         IF s.endListener THEN endHandler(C) ELSE C)

\* callback(err): the completion callback sees the error and the disk
callCallback(s, err) ==
  [s EXCEPT !.events = Append(@, "callback"),
            !.observed = [called |-> TRUE,
                          err |-> err,
                          tempExists |-> s.tempExists,
                          keeperExists |-> s.keeperExists]]

\* finish(err) of compile
finish(s, C, err) ==
  LET s1 == cleanup(s)
      r2 == emitEnd(s1, C)
      s3 == callCallback(r2.s, err)
  IN Result([s3 EXCEPT !.pc = "done"], r2.C)

\* err || err2
OrError(err, err2) == IF err # NoError THEN err ELSE err2

\* Compiler.prototype.processOutputFiles: the stream is set up
processOutputFiles(s) == [s EXCEPT !.pc = "output", !.stream = "flowing"]

\* Faulty variant: the stream goes on after an error
onStreamError_StaysOpen(s, C) ==
  finish(s, C, OrError(s.err, <<"output">>))

\* The 'error' listener of processOutputFiles and the callback it is given
onStreamError(s, C) ==
  finish([s EXCEPT !.stream = "errored"], C, OrError(s.err, <<"output">>))

\* The 'end' listener of processOutputFiles and the callback it is given
onStreamEnd(s, C) ==
  finish([s EXCEPT !.stream = "ended"], C, OrError(s.err, NoError))

\* Faulty variant: an error ends the pipeline in every mode
waterfallDone_AlwaysSafe(s, C, err) ==
  LET s1 == [s EXCEPT !.err = err]
  IN IF err # NoError
       THEN finish(s1, C, err)
       ELSE Result(processOutputFiles(s1), C)

\* Faulty variant: safe is not consulted
waterfallDone_NeverSafe(s, C, err) ==
  Result(processOutputFiles([s EXCEPT !.err = err]), C)

\* The final callback of async.waterfall
waterfallDone(s, C, err) ==
  LET s1 == [s EXCEPT !.err = err]
  IN IF err # NoError /\ s.options.safe
       THEN finish(s1, C, err)
       ELSE Result(processOutputFiles(s1), C)

\* makeTreeKeeperFile is skipped
skipTreeKeeper(o) == ~o.keepTree \/ o.out # Null \/ o.sourceFiles = 0

\* The task the waterfall calls after a checkAborted that passed
nextTask(s, C) ==
  CASE s.pc = "check1" -> Result([s EXCEPT !.pc = "mkdir"], C)
    [] s.pc = "check2" -> Result([s EXCEPT !.pc = IF skipTreeKeeper(s.options)
                                                    THEN "check3" ELSE "keeper"], C)
    [] s.pc = "check3" -> Result([s EXCEPT !.pc = "args"], C)
    [] s.pc = "check4" -> Result([s EXCEPT !.pc = "tsc", !.proc = "running"], C)
    [] s.pc = "check5" -> waterfallDone(s, C, NoError)

Checks == {"check1", "check2", "check3", "check4", "check5"}

Apply(i, r) ==
  /\ inv' = [inv EXCEPT ![i] = r.s]
  /\ Compiler' = r.C

\* -------------------------------------------------------------- the actions
\* new Compiler(sourceFiles, options).compile(callback)
Compile(i) ==
  /\ inv[i].pc = "idle"
  /\ \E o \in Configurations :
       Apply(i, Result([NewCompiler(o) EXCEPT !.pc = "check1", !.endListener = TRUE,
                                              !.startedAborted = isAborted(Compiler)],
                       Compiler_start(Compiler)))
  /\ UNCHANGED <<abortCalls, passed, job, stack>>

\* A checkAborted task of the waterfall runs
CheckAborted(i) ==
  /\ inv[i].pc \in Checks
  /\ LET err == checkAborted(Compiler)
     IN Apply(i, IF err # NoError
                   THEN waterfallDone(inv[i], Compiler, err)
                   ELSE nextTask(inv[i], Compiler))
  /\ UNCHANGED <<abortCalls, passed, job, stack>>

\* temp.mkdir calls back
MakeTempDestinationDir(i) ==
  /\ inv[i].pc = "mkdir"
  /\ \E ok \in BOOLEAN :
       Apply(i, IF ok
                  THEN Result([inv[i] EXCEPT !.tempDestination = "tmp",
                                             !.tempExists = TRUE,
                                             !.pc = "check2"], Compiler)
                  ELSE waterfallDone(inv[i], Compiler, <<"mkdir">>))
  /\ UNCHANGED <<abortCalls, passed, job, stack>>

\* temp.open calls back
MakeTreeKeeperFile(i) ==
  /\ inv[i].pc = "keeper"
  /\ \E outcome \in {"ok", "open", "write"} :
       LET s1 == [inv[i] EXCEPT !.treeKeeperFile = "keeper", !.keeperExists = TRUE]
       IN Apply(i, CASE outcome = "ok"    -> Result([s1 EXCEPT !.pc = "check3"], Compiler)
                     [] outcome = "open"  -> waterfallDone(inv[i], Compiler, <<"keeper">>)
                     [] outcome = "write" -> waterfallDone(s1, Compiler, <<"write">>))
  /\ UNCHANGED <<abortCalls, passed, job, stack>>

\* getVersion and fs.writeFile of the argument file call back
PrepareTscArgumentsFile(i) ==
  /\ inv[i].pc = "args"
  /\ \E ok \in BOOLEAN :
       LET s1 == [inv[i] EXCEPT !.tscArgumentsFile = "tscArguments"]
       IN Apply(i, IF ok
                     THEN Result([s1 EXCEPT !.pc = "check4"], Compiler)
                     ELSE waterfallDone(s1, Compiler, <<"args">>))
  /\ UNCHANGED <<abortCalls, passed, job, stack>>

\* proc.on('exit')
ProcExit(i) ==
  /\ inv[i].pc = "tsc"
  /\ inv[i].proc \in {"running", "errored"}
  /\ \E code \in ExitCodes :
       LET s1 == [inv[i] EXCEPT !.proc = "exited", !.exitCode = code]
       IN Apply(i, IF code # 0
                     THEN waterfallDone(s1, Compiler, ExitError(code))
                     ELSE Result([s1 EXCEPT !.pc = "check5"], Compiler))
  /\ UNCHANGED <<abortCalls, passed, job, stack>>

\* proc.on('error'): the process could not be spawned, killed or messaged
ProcError(i) ==
  /\ inv[i].pc = "tsc"
  /\ inv[i].proc = "running"
  /\ inv' = [inv EXCEPT ![i].proc = "errored"]
  /\ UNCHANGED <<Compiler, abortCalls, passed, job, stack>>

\* stream.on('data')
StreamData(i) ==
  /\ inv[i].pc = "output"
  /\ inv[i].stream = "flowing"
  /\ inv[i].published < MaxArtifacts
  /\ inv' = [inv EXCEPT ![i].published = @ + 1]
  /\ UNCHANGED <<Compiler, abortCalls, passed, job, stack>>

\* stream.on('end')
StreamEnd(i) ==
  /\ inv[i].stream = "flowing"
  /\ Apply(i, onStreamEnd(inv[i], Compiler))
  /\ UNCHANGED <<abortCalls, passed, job, stack>>

\* stream.on('error'): an error ends the stream, no 'end' follows it
StreamError(i) ==
  /\ inv[i].stream = "flowing"
  /\ Apply(i, onStreamError(inv[i], Compiler))
  /\ UNCHANGED <<abortCalls, passed, job, stack>>

\* Compiler.abortAll(callback), called by the user
AbortAll ==
  /\ abortCalls < MaxAbortCalls
  /\ \E callback \in {NoCallback, abortCalls + 1} :
       /\ Compiler' = Compiler_abortAll(Compiler, callback)
       /\ passed' = passed \cup ({callback} \ {NoCallback})
  /\ abortCalls' = abortCalls + 1
  /\ UNCHANGED <<inv, job, stack>>

Step(i) ==
  \/ CheckAborted(i)
  \/ MakeTempDestinationDir(i)
  \/ MakeTreeKeeperFile(i)
  \/ PrepareTscArgumentsFile(i)
  \/ StreamData(i)
  \/ StreamEnd(i)
  \/ StreamError(i)

Next ==
  \/ \E i \in Compilers : Compile(i)
  \/ \E i \in Compilers : Step(i)
  \/ \E i \in Compilers : ProcExit(i)
  \/ \E i \in Compilers : ProcError(i)
  \/ AbortAll

Spec == Init /\ [][Next]_vars

\* Every callback of an asynchronous call the program has made is run by the
\* event loop; the tsc process itself may run forever.
FairSpec == Spec /\ \A i \in Compilers : WF_vars(Step(i))

\* =========================================================================
\* One invocation followed with its data: the options, the argument list,
\* the files tsc has emitted and what the output stage publishes.
\*
\* A path string is the sequence of its parts between separators: "src/x.js"
\* is <<"src", "x.js">>, "src/" is <<"src", "">>, "" is <<"">>, and a string
\* that starts with a separator has "" as first part.  An absolute path that
\* path.resolve has returned is the sequence of its names from the root.
\* -------------------------------------------------------------------------
MaxFlags == 2          \* switches set at once in a direct call of buildTscArguments
MaxFiles == 2          \* files the enumeration of the output stage delivers

NoPath == <<>>         \* null for an option or a field that holds a path
Undefined == "undefined"

IsAbsolute(str) == Len(str) >= 2 /\ str[1] = ""

\* The names of a path string, "." and ".." resolved, on top of the names
\* acc; in a relative path a ".." with nothing to remove is kept.
RECURSIVE Walk(_, _, _)
Walk(acc, str, keepDots) ==
  IF str = <<>> THEN acc
  ELSE LET part == Head(str)
           next == CASE part \in {"", "."} -> acc
                     [] part = ".." ->
                          IF acc # <<>> /\ acc[Len(acc)] # ".."
                            THEN SubSeq(acc, 1, Len(acc) - 1)
                            ELSE IF keepDots THEN Append(acc, "..") ELSE acc
                     [] OTHER -> Append(acc, part)
       IN Walk(next, Tail(str), keepDots)

\* path.resolve(from, to), from an absolute path
resolve(from, to) ==
  IF IsAbsolute(to) THEN Walk(<<>>, to, FALSE) ELSE Walk(from, to, FALSE)

\* path.dirname of an absolute path
dirname(p) == IF p = <<>> THEN <<>> ELSE SubSeq(p, 1, Len(p) - 1)

\* The length of the longest common prefix of two absolute paths
RECURSIVE Common(_, _)
Common(a, b) ==
  IF a # <<>> /\ b # <<>> /\ Head(a) = Head(b) THEN 1 + Common(Tail(a), Tail(b)) ELSE 0

\* path.relative(from, to) of two absolute paths, as a path string
relative(from, to) ==
  LET c    == Common(from, to)
      ups  == [k \in 1..(Len(from) - c) |-> ".."]
      rest == SubSeq(to, c + 1, Len(to))
  IN IF ups \o rest = <<>> THEN <<"">> ELSE ups \o rest

\* path.normalize of a path string: a trailing separator is preserved
normalize(str) ==
  LET names    == Walk(<<>>, str, ~IsAbsolute(str))
      trailing == Len(str) >= 2 /\ str[Len(str)] = ""
      body     == IF IsAbsolute(str) THEN <<"">> \o names
                  ELSE IF names = <<>> THEN <<".">> ELSE names
  IN IF trailing /\ names # <<>> THEN Append(body, "")
     ELSE IF trailing /\ ~IsAbsolute(str) THEN <<".", "">>
     ELSE IF IsAbsolute(str) /\ names = <<>> THEN <<"", "">>
     ELSE body

\* String.prototype.substr(0, n) === prefix, for a prefix that ends with a
\* separator (its last part is "")
StartsWith(str, prefix) ==
  /\ Len(str) >= Len(prefix)
  /\ \A k \in 1..(Len(prefix) - 1) : str[k] = prefix[k]

\* str.substr(prefix.length) for such a prefix
AfterPrefix(str, prefix) == SubSeq(str, Len(prefix), Len(str))

\* ------------------------------------------------- options and arguments
\* The switches of buildTscArguments that take no value, in its order
Switches ==
  << "allowbool", "allowimportmodule", "suppressImplicitAnyIndexErrors",
     "declaration", "noImplicitAny", "noResolve", "removeComments",
     "sourceMap", "noLib", "emitDecoratorMetadata" >>

\* What the user passed for an option, or the default
Given(given, name, default) == IF name \in DOMAIN given THEN given[name] ELSE default

\* The constructor: the defaults extended by the options given, then
\* sourceMap = sourceMap || sourcemap.  A string option is Null when null, a
\* path option NoPath.
Options(given) ==
  LET defaultModule == IF "target" \in DOMAIN given /\ given["target"] = "ES6"
                         THEN Null ELSE "commonjs"
      o == [ module            |-> Given(given, "module", defaultModule),
             target            |-> Given(given, "target", "ES3"),
             out               |-> Given(given, "out", NoPath),
             outDir            |-> Given(given, "outDir", NoPath),
             mapRoot           |-> Given(given, "mapRoot", NoPath),
             sourceRoot        |-> Given(given, "sourceRoot", NoPath),
             allowbool         |-> Given(given, "allowbool", FALSE),
             allowimportmodule |-> Given(given, "allowimportmodule", FALSE),
             declaration       |-> Given(given, "declaration", FALSE),
             noImplicitAny     |-> Given(given, "noImplicitAny", FALSE),
             noResolve         |-> Given(given, "noResolve", FALSE),
             removeComments    |-> Given(given, "removeComments", FALSE),
             sourceMap         |-> Given(given, "sourceMap", FALSE),
             suppressImplicitAnyIndexErrors |->
                                   Given(given, "suppressImplicitAnyIndexErrors", FALSE),
             noLib             |-> Given(given, "noLib", FALSE),
             keepTree          |-> Given(given, "keepTree", TRUE),
             pathFilter        |-> Given(given, "pathFilter", [type |-> "null", pairs |-> <<>>]),
             safe              |-> Given(given, "safe", FALSE),
             emitDecoratorMetadata |-> Given(given, "emitDecoratorMetadata", FALSE) ]
  IN [o EXCEPT !.sourceMap = @ \/ Given(given, "sourcemap", FALSE)]

\* if (s) for a string, if (p) for a path string
TruthyString(s) == s \notin {Null, ""}
TruthyPath(p) == p \notin {NoPath, <<"">>}

\* String.prototype.toLowerCase and toUpperCase on the values in use
toLowerCase(s) ==
  CASE s = "AMD" -> "amd"
    [] s = "CommonJS" -> "commonjs"
    [] OTHER -> s
toUpperCase(s) ==
  CASE s = "es5" -> "ES5"
    [] s = "es6" -> "ES6"
    [] OTHER -> s

\* The arguments pushed for the switches from the k-th on
RECURSIVE SwitchArguments(_, _, _)
SwitchArguments(o, version, k) ==
  IF k > Len(Switches) THEN <<>>
  ELSE LET name == Switches[k]
           on   == o[name] /\ (name = "suppressImplicitAnyIndexErrors" => version = "1.5")
           flag == IF name = "sourceMap" THEN "--sourcemap" ELSE "--" \o name
       IN (IF on THEN << <<flag>> >> ELSE <<>>) \o SwitchArguments(o, version, k + 1)

\* Faulty variant: the compiler writes to the configured directory
buildTscArguments_OwnOutDir(self, version) ==
  LET o == self.options
  IN SwitchArguments(o, version, 1)
     \o (IF TruthyPath(o.outDir) THEN << <<"--outDir">>, o.outDir >> ELSE <<>>)
     \o [k \in 1..Len(self.sourceFiles) |-> self.sourceFiles[k].path]

\* Compiler.prototype.buildTscArguments: every argument is a path string
buildTscArguments(self, version) ==
  LET o == self.options
      v == IF version = Undefined THEN "1.5" ELSE version
  IN (IF TruthyString(o.module) THEN << <<"--module">>, <<toLowerCase(o.module)>> >> ELSE <<>>)
     \o (IF TruthyString(o.target) THEN << <<"--target">>, <<toUpperCase(o.target)>> >> ELSE <<>>)
     \o (IF TruthyPath(o.mapRoot) THEN << <<"--mapRoot">>, o.mapRoot >> ELSE <<>>)
     \o (IF TruthyPath(o.sourceRoot) THEN << <<"--sourceRoot">>, o.sourceRoot >> ELSE <<>>)
     \o SwitchArguments(o, v, 1)
     \o (IF self.tempDestination # NoPath
           THEN << <<"--outDir">>, self.tempDestination >>
                \o (IF TruthyPath(o.out)
                      THEN << <<"--out">>, resolve(self.tempDestination, o.out) >>
                      ELSE <<>>)
           ELSE IF TruthyPath(o.out) THEN << <<"--out">>, o.out >> ELSE <<>>)
     \o [k \in 1..Len(self.sourceFiles) |-> self.sourceFiles[k].path]
     \o (IF self.treeKeeperFile # NoPath THEN << self.treeKeeperFile >> ELSE <<>>)

\* ------------------------------------------------------ the followed job
Cwd == <<"cwd">>                           \* process.cwd()
TempDir == <<"cwd", "gulp-tsc-tmp-0">>     \* the directory temp.mkdir made
KeeperName == ".gulp-tsc-tmp-0.ts"         \* the name temp.open chose

\* A file name as stem and extension
NameParts(name) ==
  CASE name = "x.js"                   -> [stem |-> "x", ext |-> ".js"]
    [] name = "x.js.map"               -> [stem |-> "x", ext |-> ".js.map"]
    [] name = "y.d.ts"                 -> [stem |-> "y", ext |-> ".d.ts"]
    [] name = "m.js"                   -> [stem |-> "m", ext |-> ".js"]
    [] name = "r.js"                   -> [stem |-> "r", ext |-> ".js"]
    [] name = "notes.txt"              -> [stem |-> "notes", ext |-> ".txt"]
    [] name = ".gulp-tsc-tmp-0.ts"     -> [stem |-> ".gulp-tsc-tmp-0", ext |-> ".ts"]
    [] name = ".gulp-tsc-tmp-0.js"     -> [stem |-> ".gulp-tsc-tmp-0", ext |-> ".js"]
    [] name = ".gulp-tsc-tmp-0.js.map" -> [stem |-> ".gulp-tsc-tmp-0", ext |-> ".js.map"]
    [] OTHER                           -> [stem |-> name, ext |-> ""]

\* path.basename(p, '.ts')
basename(p) == NameParts(p[Len(p)]).stem

\* The source files the plugin may be given: path and base of each
SourceX == [path |-> <<"cwd", "src", "x.ts">>, base |-> <<"cwd", "src">>]
SourceY == [path |-> <<"cwd", "lib", "y.ts">>, base |-> <<"cwd", "lib">>]

\* What the temporary directory may hold after tsc has run, relative to it:
\* outputs of the sources, an output of the tree keeper file, and a file
\* the patterns do not select.
EmittedFiles ==
  { <<"src", "x.js">>, <<"src", "x.js.map">>, <<"lib", "y.d.ts">>,
    <<"src", ".gulp-tsc-tmp-0.js">>, <<"notes.txt">> }

\* The contents an emitted file may have: the paths it holds (the sources of
\* a source map, the reference paths of a declaration file) and, for a
\* source map, whether it is JSON.
Contents(rel) ==
  LET ext == NameParts(rel[Len(rel)]).ext
  IN CASE ext = ".js.map" -> { [paths |-> << <<"..", "..", "src", "x.ts">>, <<"x.ts">> >>,
                                json |-> TRUE],
                               [paths |-> <<>>, json |-> FALSE] }
       [] ext = ".d.ts"   -> { [paths |-> << <<"..", "src", "x.d.ts">> >>, json |-> TRUE] }
       [] OTHER           -> { [paths |-> <<>>, json |-> TRUE] }

\* The patterns of processOutputFiles: '**/*{.js,.js.map,.d.ts}' and, with a
\* tree keeper file, '!**/' + basename + '.*'.  (That a '*' of the first
\* pattern matches no leading dot is left out: the selection here is the
\* larger one.)
\* Faulty variant: the outputs of the tree keeper file are not excluded
Selected_NoExclusion(self, rel) ==
  NameParts(rel[Len(rel)]).ext \in {".js", ".js.map", ".d.ts"}

Selected(self, rel) ==
  LET name == NameParts(rel[Len(rel)])
  IN /\ name.ext \in {".js", ".js.map", ".d.ts"}
     /\ self.treeKeeperFile # NoPath => name.stem # basename(self.treeKeeperFile)

\* What a pathFilter function may return
Returns ==
  { [type |-> "true",      path |-> NoPath],
    [type |-> "undefined", path |-> NoPath],
    [type |-> "false",     path |-> NoPath],
    [type |-> "string",    path |-> <<"moved", "m.js">>],
    [type |-> "object",    path |-> <<"cwd", "other", "r.js">>],  \* a vinyl file
    [type |-> "object",    path |-> NoPath],                       \* {} and the like
    [type |-> "number",    path |-> NoPath] }
NoReturn == [type |-> "none", path |-> NoPath]   \* no function was called

\* The values of options.pathFilter: none, a function, mapping objects (own
\* keys in iteration order) and a value of another type
PathFilters ==
  { [type |-> "null",     pairs |-> <<>>],
    [type |-> "function", pairs |-> <<>>],
    [type |-> "object",   pairs |-> << [key |-> <<"src">>, val |-> <<"out">>] >>],
    [type |-> "object",   pairs |-> << [key |-> <<"src", "">>, val |-> <<"out">>] >>],
    [type |-> "object",   pairs |-> << [key |-> <<".", "src">>, val |-> <<"a">>],
                                       [key |-> <<"src">>, val |-> <<"b">>] >>],
    [type |-> "object",   pairs |-> << [key |-> <<"sr">>, val |-> <<"out">>] >>],
    [type |-> "number",   pairs |-> <<>>] }

FilterValueError == <<"Unknown return value from pathFilter function">>
FilterTypeError == <<"Unknown type for pathFilter">>
ParseError == <<"SyntaxError">>
EnumerationError == <<"enumeration">>

\* The options tried in a followed invocation: whether a tree keeper file is
\* due, the path filter, what decides the stages piped after
\* fixOutputFilePath.
KeeperCases ==
  { [given |-> [keepTree |-> TRUE,  out |-> NoPath],       sourceFiles |-> <<SourceX>>],
    [given |-> [keepTree |-> TRUE,  out |-> NoPath],       sourceFiles |-> <<SourceY, SourceX>>],
    [given |-> [keepTree |-> FALSE, out |-> NoPath],       sourceFiles |-> <<SourceX>>],
    [given |-> [keepTree |-> TRUE,  out |-> <<"out.js">>], sourceFiles |-> <<SourceX>>],
    [given |-> [keepTree |-> TRUE,  out |-> NoPath],       sourceFiles |-> <<>>] }
SourceMapCases ==
  { [sourceMap |-> FALSE, sourcemap |-> FALSE, sourceRoot |-> NoPath],
    [sourceMap |-> FALSE, sourcemap |-> TRUE,  sourceRoot |-> NoPath],
    [sourceMap |-> TRUE,  sourcemap |-> FALSE, sourceRoot |-> <<"root">>] }
DeclarationCases ==
  [declaration : BOOLEAN, outDir : {NoPath, <<"dist", "js">>}]

\* The options tried in a direct call of buildTscArguments
SwitchNames == {Switches[k] : k \in DOMAIN Switches} \cup {"sourcemap"}
SwitchCases ==
  { [name \in S |-> TRUE] : S \in {T \in SUBSET SwitchNames : Cardinality(T) <= MaxFlags} }
StringCases ==
  { [tscPath |-> Null], [module |-> "AMD"], [module |-> Null],
    [target |-> "es5"], [target |-> "ES6"], [target |-> Null] }
PathCases ==
  [mapRoot : {NoPath, <<"">>, <<"maps">>}, sourceRoot : {NoPath, <<"root">>},
   out : {NoPath, <<"out.js">>}]
Versions == {Undefined, "1.5", "1.4"}

\* No file has passed through the output stage yet
NoFile == [path |-> NoPath, base |-> NoPath, originalPath |-> NoPath,
           contents |-> [paths |-> <<>>, json |-> TRUE]]
NothingYet == [rel |-> NoPath, contents |-> NoFile.contents, ret |-> NoReturn,
               moved |-> NoFile, kind |-> "none"]

\* pc of the followed invocation:
\*   "call"    an instance on which buildTscArguments is to be called
\*   "called"  buildTscArguments has returned
\*   "keeper"  makeTreeKeeperFile is due (the temporary directory exists)
\*   "args"    prepareTscArgumentsFile is due
\*   "tsc"     tsc is to be launched
\*   "output"  processOutputFiles has set up its streams
\*   "done"    finish() has run
\*   "failed"  a task of the waterfall has failed
\*   "broken"  an exception has left an event handler: no listener of the
\*             output stage runs again
NewJob(o, sourceFiles, pc, tempDestination, treeKeeperFile) ==
  [ pc              |-> pc,
    options         |-> o,
    sourceFiles     |-> sourceFiles,
    tempDestination |-> tempDestination,
    treeKeeperFile  |-> treeKeeperFile,
    keeperExists    |-> treeKeeperFile # NoPath,
    err             |-> NoError,      \* the error the waterfall ended with
    version         |-> Undefined,    \* what getVersion called back with
    args            |-> <<>>,         \* what buildTscArguments returned
    launched        |-> <<>>,         \* the arguments tsc was launched with
    enumerated      |-> {},           \* the files the enumeration has delivered
    published       |-> <<>>,         \* the files of the 'data' events
    last            |-> NothingYet,   \* the last file through the stage
    raised          |-> NoError,      \* the error raised in the output stage
    completion      |-> [called |-> FALSE, err |-> NoError] ]

PipelineJobs ==
  { NewJob(Options(k.given @@ [pathFilter |-> pf] @@ sm @@ d), k.sourceFiles,
           "keeper", TempDir, NoPath) :
      k \in KeeperCases, pf \in PathFilters, sm \in SourceMapCases, d \in DeclarationCases }

DirectJobs ==
  { NewJob(Options(sw @@ st @@ pa), sources, "call", temp, keeper) :
      sw \in SwitchCases, st \in StringCases, pa \in PathCases,
      sources \in {<<>>, <<SourceX>>}, temp \in {NoPath, TempDir},
      keeper \in {NoPath, Append(SourceX.base, KeeperName)} }

\* ------------------------------------------------------ the output stage
\* file.relative of a vinyl file
relativeOf(file) == relative(file.base, file.path)

\* What a transform or the filter does with a file: it passes a file on
\* ("file"), passes nothing on ("null"), or throws ("throw")
Pass(file) == [kind |-> "file", file |-> file, err |-> NoError]
Drop == [kind |-> "null", file |-> NoFile, err |-> NoError]
Throw(err) == [kind |-> "throw", file |-> NoFile, err |-> err]

\* The _.forOwn of filterOutput over a mapping object: the first key whose
\* normalized form plus separator starts file.relative moves the file, and
\* returning false ends the iteration
RECURSIVE forOwn(_, _)
forOwn(file, pairs) ==
  IF pairs = <<>> THEN file
  ELSE LET src == Append(normalize(Head(pairs).key), "")
           rel == relativeOf(file)
       IN IF StartsWith(rel, src)
            THEN LET rest == AfterPrefix(rel, src)
                 IN [file EXCEPT !.path = resolve(resolve(file.base, Head(pairs).val),
                                                  IF rest = <<"">> THEN <<".">> ELSE rest)]
            ELSE forOwn(file, Tail(pairs))

\* Faulty variant: a string returned by the function is taken as it is
filterOutput_StringAsPath(self, file, ret) ==
  IF ret.type = "string" THEN Pass([file EXCEPT !.path = ret.path])
  ELSE IF ret.type = "false" THEN Drop
  ELSE IF ret.type = "object" /\ ret.path # NoPath
         THEN Pass([NoFile EXCEPT !.path = ret.path, !.base = Cwd])
  ELSE IF ret.type \in {"true", "undefined"} THEN Pass(file)
  ELSE Throw(FilterValueError)

\* Compiler.prototype.filterOutput; ret is what the pathFilter function
\* returns for this file
filterOutput(self, file, ret) ==
  LET filter == self.options.pathFilter
  IN CASE filter.type = "null" -> Pass(file)
       [] filter.type = "function" ->
            CASE ret.type \in {"true", "undefined"} -> Pass(file)
              [] ret.type = "false" -> Drop
              [] ret.type = "string" -> Pass([file EXCEPT !.path = resolve(file.base, ret.path)])
              [] ret.type = "object" /\ ret.path # NoPath ->
                   Pass([NoFile EXCEPT !.path = ret.path, !.base = Cwd])
              [] OTHER -> Throw(FilterValueError)
       [] filter.type = "object" -> Pass(forOwn(file, filter.pairs))
       [] OTHER -> Throw(FilterTypeError)

\* The outDir of fixOutputFilePath
outputRoot(self) ==
  IF TruthyPath(self.options.outDir) THEN resolve(Cwd, self.options.outDir)
  ELSE self.tempDestination

\* The first three statements of the transform of fixOutputFilePath
moveFile(self, file) ==
  [file EXCEPT !.originalPath = file.path,
               !.path = resolve(outputRoot(self), relativeOf(file)),
               !.base = outputRoot(self)]

\* The transform of fixOutputFilePath; a throw of the filter is caught and
\* given to done
fixOutputFilePath(self, file, ret) ==
  IF self.options.pathFilter.type # "null"
    THEN filterOutput(self, moveFile(self, file), ret)
    ELSE Pass(moveFile(self, file))

\* /\.js\.map/.test(path) and /\.d\.ts/.test(path)
Matches(p, ext) == \E k \in DOMAIN p : NameParts(p[k]).ext = ext

\* Faulty variant: the paths are made relative to where the file was
rewritePath_FromOriginal(file, p) ==
  relative(dirname(file.originalPath), resolve(dirname(file.originalPath), p))

\* The rewriting of one path held by a file that has moved
rewritePath(file, p) ==
  relative(dirname(file.path), resolve(dirname(file.originalPath), p))

rewritePaths(file) ==
  [file EXCEPT !.contents.paths = [k \in DOMAIN @ |-> rewritePath(file, @[k])]]

\* The transform of fixSourcemapPath; JSON.parse is not guarded
fixSourcemapPath(file) ==
  IF ~Matches(file.path, ".js.map") THEN Pass(file)
  ELSE IF ~file.contents.json THEN Throw(ParseError)
  ELSE Pass(rewritePaths(file))

\* The transform of fixReferencePath
fixReferencePath(file) ==
  IF ~Matches(file.path, ".d.ts") THEN Pass(file) ELSE Pass(rewritePaths(file))

\* The transforms processOutputFiles pipes the enumeration into
Chain(self) ==
  <<"fixOutputFilePath">>
  \o (IF self.options.sourceMap /\ ~TruthyPath(self.options.sourceRoot)
        THEN <<"fixSourcemapPath">> ELSE <<>>)
  \o (IF self.options.declaration /\ TruthyPath(self.options.outDir)
        THEN <<"fixReferencePath">> ELSE <<>>)

\* A file pushed by transform k - 1 goes through the transforms from k on
RECURSIVE pipe(_, _, _)
pipe(chain, k, file) ==
  IF k > Len(chain) THEN Pass(file)
  ELSE LET r == IF chain[k] = "fixSourcemapPath" THEN fixSourcemapPath(file)
                ELSE fixReferencePath(file)
       IN IF r.kind = "file" THEN pipe(chain, k + 1, r.file) ELSE r

\* What comes of a file the enumeration delivers:
\*   "data"   the last stream emits it
\*   "none"   fixOutputFilePath pushes nothing
\*   "error"  fixOutputFilePath emits 'error' (done(e))
\*   "throw"  a later transform throws
through(self, file, ret) ==
  LET first == fixOutputFilePath(self, file, ret)
      rest  == pipe(Chain(self), 2, first.file)
  IN CASE first.kind = "throw" -> [kind |-> "error", file |-> NoFile, err |-> first.err]
       [] first.kind = "null"  -> [kind |-> "none", file |-> NoFile, err |-> NoError]
       [] rest.kind = "throw"  -> rest
       [] OTHER                -> [kind |-> "data", file |-> rest.file, err |-> NoError]

\* finish(err) of compile, for the followed invocation
jobFinish(j, err) ==
  [j EXCEPT !.keeperExists = FALSE,
            !.completion = [called |-> TRUE, err |-> err],
            !.pc = "done"]

\* An 'error' event of fixOutputFilePath's stream has a listener other than
\* the one pipe() attached: processOutputFiles listens on the last stream
errorHeard(self) == Len(Chain(self)) = 1

\* --------------------------------------- the actions of the followed job
registry == <<inv, abortCalls, passed, stack>>

\* buildTscArguments(version) called on an instance
JobBuildTscArguments ==
  /\ job.pc = "call"
  /\ \E version \in Versions :
       job' = [job EXCEPT !.version = version,
                          !.args = buildTscArguments(job, version),
                          !.pc = "called"]
  /\ UNCHANGED <<Compiler, registry>>

\* makeTreeKeeperFile, and temp.open calling back; after a failure the
\* waterfall ends and, safe being off, the output stage runs
JobMakeTreeKeeperFile ==
  /\ job.pc = "keeper"
  /\ IF ~job.options.keepTree \/ TruthyPath(job.options.out) \/ Len(job.sourceFiles) = 0
       THEN job' = [job EXCEPT !.pc = "args"]
       ELSE \E ok \in BOOLEAN :
              job' = IF ok
                       THEN [job EXCEPT !.treeKeeperFile =
                                           Append(job.sourceFiles[1].base, KeeperName),
                                        !.keeperExists = TRUE,
                                        !.pc = "args"]
                       ELSE [job EXCEPT !.err = <<"keeper">>, !.pc = "output"]
  /\ UNCHANGED <<Compiler, registry>>

\* prepareTscArgumentsFile: getVersion calls back and the list is written
JobPrepareTscArgumentsFile ==
  /\ job.pc = "args"
  /\ \E version \in Versions :
       job' = [job EXCEPT !.version = version,
                          !.args = buildTscArguments(job, version),
                          !.pc = "tsc"]
  /\ UNCHANGED <<Compiler, registry>>

\* runTsc launches tsc with the argument file, and tsc exits with code 0
JobRunTsc ==
  /\ job.pc = "tsc"
  /\ job' = [job EXCEPT !.launched = job.args, !.pc = "output"]
  /\ UNCHANGED <<Compiler, registry>>

\* The enumeration delivers a file, which goes through the transforms
JobData ==
  /\ job.pc = "output"
  /\ Cardinality(job.enumerated) < MaxFiles
  /\ \E rel \in {r \in EmittedFiles : Selected(job, r)} \ job.enumerated :
       \E contents \in Contents(rel) :
         \E ret \in IF job.options.pathFilter.type = "function" THEN Returns ELSE {NoReturn} :
           LET file == [path |-> job.tempDestination \o rel,
                        base |-> job.tempDestination,
                        originalPath |-> NoPath,
                        contents |-> contents]
               r  == through(job, file, ret)
               j1 == [job EXCEPT !.enumerated = @ \cup {rel},
                                 !.last = [rel |-> rel, contents |-> contents, ret |-> ret,
                                           moved |-> moveFile(job, file), kind |-> r.kind],
                                 !.raised = r.err]
           IN CASE r.kind = "data" ->
                     /\ job' = [j1 EXCEPT !.published = Append(@, r.file)]
                     /\ UNCHANGED Compiler
                [] r.kind = "none" ->
                     /\ job' = j1
                     /\ UNCHANGED Compiler
                [] r.kind = "error" /\ errorHeard(job) ->
                     /\ job' = jobFinish(j1, OrError(job.err, r.err))
                     /\ Compiler' = endHandler(Compiler)
                [] OTHER ->
                     /\ job' = [j1 EXCEPT !.pc = "broken"]
                     /\ UNCHANGED Compiler
  /\ UNCHANGED registry

\* The enumeration fails: its 'error' event has no listener
JobEnumerationError ==
  /\ job.pc = "output"
  /\ job' = [job EXCEPT !.raised = EnumerationError, !.pc = "broken"]
  /\ UNCHANGED <<Compiler, registry>>

\* The last stream emits 'end'
JobEnd ==
  /\ job.pc = "output"
  /\ job' = jobFinish(job, OrError(job.err, NoError))
  /\ Compiler' = endHandler(Compiler)
  /\ UNCHANGED registry

JobInit ==
  /\ job \in PipelineJobs \cup DirectJobs
  /\ Compiler = [running |-> IF job.pc = "keeper" THEN 1 ELSE 0, aborted |-> FALSE,
                 abortCallbacks |-> <<>>, fired |-> <<>>]
  /\ inv = [i \in Compilers |-> NewCompiler(DefaultOptions)]
  /\ abortCalls = 0
  /\ passed = {}
  /\ stack = <<>>

JobNext ==
  \/ JobBuildTscArguments
  \/ JobMakeTreeKeeperFile
  \/ JobPrepareTscArgumentsFile
  \/ JobRunTsc
  \/ JobData
  \/ JobEnumerationError
  \/ JobEnd

JobSpec == JobInit /\ [][JobNext]_vars

\* =========================================================================
\* The registry with abort callbacks that call back into the plugin.
\*
\* _allAborted calls the callbacks one after the other, and a callback may
\* call Compiler.abortAll or compile() before it returns; so a drain is
\* followed call by call.  stack holds the drains in progress: the drain a
\* callback started by calling abortAll lies on top of the drain that called
\* the callback.  Of an invocation only compile() and finish() are followed
\* here; what runs in between is in the actions of the pipeline above, and
\* nothing of it runs while a drain is in progress.
\*
\* A frame of stack:
\*   callbacks  the callbacks forEach has not called yet
\*   via        "end" or "abortAll": who called _allAborted
\*   owner      the invocation whose emit('end') runs the drain, 0 if none
\*   current    the callback that is executing, NoCallback if none
\*   drain      the number of the drain
\*   count      the callbacks of the drain called so far
\*   reentered  a callback has called abortAll or compile() in this turn
\* -------------------------------------------------------------------------
\* Faulty variant: _allAborted resets the flag after the callbacks
takeQueue_KeepsFlag(C) == [C EXCEPT !.abortCallbacks = <<>>]

\* Faulty variant: _allAborted leaves the queue in place
takeQueue_KeepsQueue(C) == [C EXCEPT !.aborted = FALSE]

\* Compiler._allAborted, the statements before forEach
takeQueue(C) == [C EXCEPT !.aborted = FALSE, !.abortCallbacks = <<>>]

\* The number of the next drain
NextDrain ==
  LET used == {Compiler.fired[k].drain : k \in DOMAIN Compiler.fired}
             \cup {stack[k].drain : k \in DOMAIN stack}
  IN IF used = {} THEN 1 ELSE 1 + CHOOSE n \in used : \A h \in used : h <= n

\* Compiler._allAborted is entered with the queue of C
NewFrame(C, via, owner, reentered) ==
  [ callbacks |-> C.abortCallbacks, via |-> via, owner |-> owner,
    current |-> NoCallback, drain |-> NextDrain, count |-> 0,
    reentered |-> reentered ]

Reentered(frames) == [k \in DOMAIN frames |-> [frames[k] EXCEPT !.reentered = TRUE]]

\* The body of Compiler.abortAll
abortAllCall(callback, reentered) ==
  LET c1 == [Compiler EXCEPT !.aborted = TRUE]
      c2 == IF callback # NoCallback
              THEN [c1 EXCEPT !.abortCallbacks = Append(@, callback)]
              ELSE c1
      frames == IF reentered THEN Reentered(stack) ELSE stack
  IN /\ IF c2.running = 0
          THEN /\ Compiler' = takeQueue(c2)
               /\ stack' = <<NewFrame(c2, "abortAll", 0, reentered)>> \o frames
          ELSE /\ Compiler' = c2
               /\ stack' = frames
     /\ passed' = passed \cup ({callback} \ {NoCallback})
     /\ abortCalls' = abortCalls + 1

InCallback == stack # <<>> /\ stack[1].current # NoCallback

\* compile() called between two turns
UserCompile(i) ==
  /\ stack = <<>>
  /\ inv[i].pc = "idle"
  /\ inv' = [inv EXCEPT ![i] = [NewCompiler(DefaultOptions) EXCEPT
                                  !.pc = "check1", !.endListener = TRUE,
                                  !.startedAborted = isAborted(Compiler)]]
  /\ Compiler' = Compiler_start(Compiler)
  /\ UNCHANGED <<abortCalls, passed, job, stack>>

\* Compiler.abortAll called between two turns
UserAbortAll ==
  /\ stack = <<>>
  /\ abortCalls < MaxAbortCalls
  /\ \E callback \in {NoCallback, abortCalls + 1} : abortAllCall(callback, FALSE)
  /\ UNCHANGED <<inv, job>>

\* finish(err) of an invocation: cleanup, then emit('end'), whose listener
\* counts down and enters _allAborted or not; the completion callback is
\* called when emit returns
Finish(i) ==
  /\ stack = <<>>
  /\ inv[i].pc = "check1"
  /\ \E err \in {NoError} \cup (IF isAborted(Compiler) THEN {AbortError} ELSE {}) :
       LET s1 == [cleanup(inv[i]) EXCEPT !.err = err,
                                         !.events = Append(@, "end"),
                                         !.endListener = FALSE]
           c1 == [Compiler EXCEPT !.running = @ - 1]
       IN IF c1.running = 0 /\ c1.aborted
            THEN /\ Compiler' = takeQueue(c1)
                 /\ stack' = <<NewFrame(c1, "end", i, FALSE)>>
                 /\ inv' = [inv EXCEPT ![i] = [s1 EXCEPT !.pc = "ending"]]
            ELSE /\ Compiler' = c1
                 /\ stack' = stack
                 /\ inv' = [inv EXCEPT ![i] = [callCallback(s1, err) EXCEPT !.pc = "done"]]
  /\ UNCHANGED <<abortCalls, passed, job>>

\* forEach calls the next callback: fn.call(null)
FireCallback ==
  /\ stack # <<>>
  /\ stack[1].current = NoCallback
  /\ stack[1].callbacks # <<>>
  /\ LET f == stack[1]
         fn == Head(f.callbacks)
     IN /\ Compiler' = [Compiler EXCEPT !.fired =
                          Append(@, [cb |-> fn, via |-> f.via, drain |-> f.drain])]
        /\ stack' = [stack EXCEPT ![1] = [f EXCEPT !.callbacks = Tail(@),
                                                   !.current = fn,
                                                   !.count = @ + 1]]
  /\ UNCHANGED <<inv, abortCalls, passed, job>>

\* The callback that is executing calls compile()
CallbackCompile(i) ==
  /\ InCallback
  /\ inv[i].pc = "idle"
  /\ inv' = [inv EXCEPT ![i] = [NewCompiler(DefaultOptions) EXCEPT
                                  !.pc = "check1", !.endListener = TRUE,
                                  !.startedAborted = isAborted(Compiler)]]
  /\ Compiler' = Compiler_start(Compiler)
  /\ stack' = Reentered(stack)
  /\ UNCHANGED <<abortCalls, passed, job>>

\* The callback that is executing calls Compiler.abortAll
CallbackAbortAll ==
  /\ InCallback
  /\ abortCalls < MaxAbortCalls
  /\ \E callback \in {NoCallback, abortCalls + 1} : abortAllCall(callback, TRUE)
  /\ UNCHANGED <<inv, job>>

\* The callback that is executing returns
CallbackReturn ==
  /\ InCallback
  /\ stack' = [stack EXCEPT ![1].current = NoCallback]
  /\ UNCHANGED <<Compiler, inv, abortCalls, passed, job>>

\* forEach has called every callback: _allAborted returns, to the callback
\* that called abortAll, to the user, or to emit('end') of finish, which
\* then calls the completion callback
DrainReturn ==
  /\ stack # <<>>
  /\ stack[1].current = NoCallback
  /\ stack[1].callbacks = <<>>
  /\ stack' = Tail(stack)
  /\ LET i == stack[1].owner
     IN inv' = IF i = 0 THEN inv
               ELSE [inv EXCEPT ![i] = [callCallback(inv[i], inv[i].err) EXCEPT !.pc = "done"]]
  /\ UNCHANGED <<Compiler, abortCalls, passed, job>>

ReentrantNext ==
  \/ \E i \in Compilers : UserCompile(i)
  \/ UserAbortAll
  \/ \E i \in Compilers : Finish(i)
  \/ FireCallback
  \/ \E i \in Compilers : CallbackCompile(i)
  \/ CallbackAbortAll
  \/ CallbackReturn
  \/ DrainReturn

ReentrantSpec == Init /\ [][ReentrantNext]_vars

\* ----------------------------------------------------------------- helpers
Range(f) == {f[k] : k \in DOMAIN f}
Count(f, e) == Cardinality({k \in DOMAIN f : f[k] = e})
Started(i) == inv[i].pc # "idle"
Ended(i) == "end" \in Range(inv[i].events)
FiredEntries(cbs, via) == [k \in 1..Len(cbs) |-> [cb |-> cbs[k], via |-> via]]
AbortAllStep == abortCalls' # abortCalls
EndStep(i) == inv[i].endListener /\ ~inv'[i].endListener
Stages == {"mkdir", "keeper", "args", "tsc"}

\* ------------------------------------------------------------------ claims
\* The callbacks newly passed in an abortAll step, as a sequence
NewlyPassed == IF passed' = passed THEN <<>> ELSE <<abortCalls + 1>>
OthersAtRest(j) == \A k \in Compilers \ {j} : inv[k].pc \in {"idle", "done"}

\* C1: abortAll(callback) called while running > 0 fires nothing during the
\* call and queues the callback; queued callbacks are fired only in the step
\* in which an invocation's 'end' makes running drop from 1 to 0, and that
\* step clears the flag; the flag is raised again only by another abortAll
\* call, and an invocation gets the abort error only from a check that saw
\* the flag set, so an invocation started after the drain passes its checks
\* until abortAll is called again.
C1_QueuedUntilLastEnd ==
  [][ /\ (AbortAllStep /\ Compiler.running > 0) =>
           /\ Compiler'.fired = Compiler.fired
           /\ Compiler'.abortCallbacks = Compiler.abortCallbacks \o NewlyPassed
      /\ (Compiler'.fired # Compiler.fired /\ ~AbortAllStep) =>
           /\ Compiler.running = 1
           /\ Compiler'.running = 0
           /\ \E i \in Compilers : EndStep(i)
           /\ Compiler'.fired = Compiler.fired \o FiredEntries(Compiler.abortCallbacks, "end")
           /\ Compiler'.abortCallbacks = <<>>
           /\ ~Compiler'.aborted
      /\ (AbortAllStep /\ Compiler'.fired # Compiler.fired) => Compiler.running = 0
      /\ (~Compiler.aborted /\ Compiler'.aborted) => AbortAllStep
      /\ \A i \in Compilers :
           (inv[i].err # AbortError /\ inv'[i].err = AbortError) => Compiler.aborted
    ]_vars

\* C1 witness: a callback queued while an invocation ran was fired by that
\* invocation's 'end', and an invocation started after that drain has passed
\* abort checks with the flag clear.
C1_Witness ==
  \E i, j \in Compilers :
    /\ inv[i].pc = "done"
    /\ OthersAtRest(j)
    /\ inv[j].pc = "tsc"
    /\ inv[j].err = NoError
    /\ Compiler.fired # <<>>
    /\ Compiler.fired[1].via = "end"
    /\ ~Compiler.aborted
    /\ abortCalls = 1

\* C2: abortAll(callback) called while running = 0 fires every queued
\* callback and the one just passed during the call, leaves the queue empty
\* and the flag false.
C2_ImmediateDrain ==
  [][ (AbortAllStep /\ Compiler.running = 0) =>
        /\ Compiler'.fired = Compiler.fired
                \o FiredEntries(Compiler.abortCallbacks \o NewlyPassed, "abortAll")
        /\ Compiler'.abortCallbacks = <<>>
        /\ ~Compiler'.aborted
    ]_vars

\* C2 witness: a callback passed with nothing running has been fired by the
\* abortAll call itself.
C2_Witness ==
  /\ Compiler.running = 0
  /\ ~Compiler.aborted
  /\ Compiler.abortCallbacks = <<>>
  /\ \E k \in DOMAIN Compiler.fired : Compiler.fired[k].via = "abortAll"

Made(s) == <<s.tempDestination, s.treeKeeperFile, s.tscArgumentsFile, s.proc, s.exitCode>>
OnDisk(s) == <<s.tempExists, s.keeperExists>>
CheckBefore(stage) ==
  CASE stage = "mkdir" -> "check1" [] stage = "keeper" -> "check2"
    [] stage = "args" -> "check3" [] stage = "tsc" -> "check4"
CheckAfter(stage) ==
  CASE stage = "mkdir" -> "check2" [] stage = "keeper" -> "check3"
    [] stage = "args" -> "check4" [] stage = "tsc" -> "check5"

\* C4: each of the four stages is started only by the check before it, which
\* saw the flag clear; a stage that succeeds leads to the next check (the
\* compiler's exit to the fifth); a check that sees the flag set fails the
\* invocation with the abort error, which the completion callback receives,
\* starts none of the four stages afterwards, and leaves what the completed
\* stages made in place until cleanup.
C4_AbortChecks ==
  [][ \A i \in Compilers :
        /\ (inv'[i].pc \in Stages /\ inv'[i].pc # inv[i].pc) =>
             /\ inv[i].pc = CheckBefore(inv'[i].pc)
             /\ ~Compiler.aborted
        /\ (inv[i].pc \in Stages /\ inv'[i].pc # inv[i].pc /\ inv'[i].err = NoError) =>
             inv'[i].pc = CheckAfter(inv[i].pc)
        /\ (inv[i].pc \in Checks /\ Compiler.aborted /\ inv'[i] # inv[i]) =>
             inv'[i].err = AbortError
        /\ (inv'[i].err = AbortError) =>
             /\ inv'[i].pc \in {"output", "done"}
             /\ Made(inv'[i]) = Made(inv[i])
             /\ inv'[i].pc = "output" => OnDisk(inv'[i]) = OnDisk(inv[i])
             /\ inv'[i].observed.called => inv'[i].observed.err = AbortError
    ]_vars

\* C4 witness: the check after the compiler's exit saw the flag set; the
\* invocation has the abort error and the directory, the keeper file and the
\* argument file the earlier stages made are still there.
C4_Witness ==
  \E i \in Compilers :
    /\ inv[i].err = AbortError
    /\ inv[i].exitCode = 0
    /\ inv[i].pc = "output"
    /\ inv[i].tempExists
    /\ inv[i].keeperExists
    /\ inv[i].tscArgumentsFile # Null

\* C5 as claimed: after a stage has failed nothing but cleanup runs, the
\* output stage included.
C5_OnlyCleanupAfterFailure ==
  \A i \in Compilers :
    inv[i].err # NoError => (inv[i].pc = "done" /\ inv[i].stream = "none")

\* C5 amended: after a stage has failed none of the remaining waterfall
\* tasks (stages and checks) runs and nothing more is made; with safe on the
\* output stage is skipped and only cleanup runs, with safe off the output
\* stage still runs before cleanup.
C5_ShortCircuit ==
  /\ [](\A i \in Compilers :
          inv[i].err # NoError =>
            /\ inv[i].pc \in {"output", "done"}
            /\ inv[i].options.safe =>
                 (inv[i].pc = "done" /\ inv[i].stream = "none" /\ inv[i].published = 0)
            /\ ~inv[i].options.safe => inv[i].stream # "none"
            /\ inv[i].pc = "done" => "cleanup" \in Range(inv[i].events))
  /\ [][ \A i \in Compilers :
           inv[i].err # NoError =>
             /\ inv'[i].err = inv[i].err
             /\ Made(inv'[i]) = Made(inv[i])
       ]_vars

\* C5 witness: the tree keeper file could not be created, safe is off, and
\* the output stage is running.
C5_Witness ==
  \E i \in Compilers :
    /\ inv[i].err = <<"keeper">>
    /\ ~inv[i].options.safe
    /\ inv[i].pc = "output"
    /\ inv[i].stream = "flowing"
    /\ inv[i].tempExists

C7_NonZeroExit ==
  \A i \in Compilers :
    (inv[i].exitCode # NoExit /\ inv[i].exitCode # 0) =>
      /\ inv[i].err = <<"tsc command has exited with code:", inv[i].exitCode>>
      /\ inv[i].observed.called => inv[i].observed.err = inv[i].err
      /\ inv[i].options.safe =>
           (inv[i].pc = "done" /\ inv[i].stream = "none" /\ inv[i].published = 0)
      /\ ~inv[i].options.safe =>
           (inv[i].stream # "none" /\ inv[i].pc \in {"output", "done"})

\* C7 witness: the process exited with the highest code, safe is off, a file
\* was published and the callback received the process failure.
C7_Witness ==
  \E i \in Compilers :
    /\ inv[i].exitCode = MaxExitCode
    /\ ~inv[i].options.safe
    /\ inv[i].published > 0
    /\ inv[i].observed.called
    /\ inv[i].observed.err = <<"tsc command has exited with code:", MaxExitCode>>

\* C8 as claimed: once the process has emitted 'exit' or 'error' the
\* invocation eventually emits 'end' (and calls back).
C8_EndsAfterExitOrError ==
  \A i \in Compilers :
    (inv[i].proc \in {"exited", "errored"}) ~> (Ended(i) /\ inv[i].observed.called)

\* C9: Compiler.running is the number of invocations started and not ended,
\* is never negative, goes up by one in the step that starts an invocation
\* and down by one in the step that emits its 'end', and changes in no
\* other step.
C9_RunningCount ==
  /\ [](/\ Compiler.running = Cardinality({i \in Compilers : Started(i) /\ ~Ended(i)})
        /\ Compiler.running >= 0)
  /\ [][ LET started == {i \in Compilers : ~Started(i) /\ inv'[i].pc # "idle"}
             ended   == {i \in Compilers : ~Ended(i) /\ "end" \in Range(inv'[i].events)}
         IN Compiler'.running = Compiler.running + Cardinality(started) - Cardinality(ended)
       ]_vars

\* C9 witness: one invocation has ended while another is still running.
C9_Witness ==
  \E i, j \in Compilers :
    /\ Ended(i)
    /\ Started(j) /\ ~Ended(j)
    /\ Compiler.running = 1

\* C10: an abortAll call made while a compiler process is running changes
\* the flag and the callback queue only: no invocation, no process, not the
\* running counter, and it fires nothing; an invocation whose process is
\* running gets no abort error before the process has exited.
C10_AbortLeavesProcess ==
  [][ /\ (AbortAllStep /\ \E i \in Compilers : inv[i].proc \in {"running", "errored"}) =>
           /\ inv' = inv
           /\ Compiler'.running = Compiler.running
           /\ Compiler'.fired = Compiler.fired
           /\ Compiler'.aborted
      /\ \A i \in Compilers :
           inv[i].pc = "tsc" =>
             /\ inv'[i].err # AbortError
             /\ inv'[i].pc # "tsc" => inv'[i].proc = "exited"
    ]_vars

\* C10 witness: abortAll was called, with a callback, after the process was
\* launched; the flag is set, the callback is queued and the process is
\* still running.
C10_Witness ==
  \E i \in Compilers :
    /\ inv[i].pc = "tsc"
    /\ inv[i].proc = "running"
    /\ Compiler.aborted
    /\ Compiler.abortCallbacks # <<>>
    /\ Compiler.running = 1

\* C11: an error raised in the output stage of an invocation whose waterfall
\* ended without error (the enumeration fails, JSON.parse of a source map
\* throws, the path filter is of an unknown type or returns an unknown
\* value) is the error the completion callback is called with, whatever
\* transforms are piped after fixOutputFilePath.
C11_OutputErrorsFail ==
  (job.pc \in {"done", "broken"} /\ job.err = NoError /\ job.raised # NoError) =>
    /\ job.completion.called
    /\ job.completion.err = job.raised

\* The followed invocation runs the pipeline, and a tree keeper file is due
Piped == job.pc \notin {"call", "called"}
KeeperDue ==
  job.options.keepTree /\ ~TruthyPath(job.options.out) /\ Len(job.sourceFiles) >= 1

HasFlag(args, flag) == \E k \in DOMAIN args : args[k] = <<flag>>
HasFlagValue(args, flag, value) ==
  \E k \in 1..(Len(args) - 1) : args[k] = <<flag>> /\ args[k + 1] = value

\* buildTscArguments has returned
ArgumentsBuilt ==
  \/ job.pc \in {"called", "tsc"}
  \/ job.pc \in {"output", "done", "broken"} /\ job.err = NoError

\* C13: in the list buildTscArguments returns, a switch is present only if
\* its option is truthy, '--module', '--target', '--mapRoot', '--sourceRoot'
\* and '--out' only if theirs is; '--outDir' is present exactly when the
\* instance has a temporary destination, and is then followed by it, and
\* '--out' by the out option resolved against it; the list tsc is launched
\* with holds '--outDir' followed by the temporary directory of the
\* invocation.
C13_Arguments ==
  ArgumentsBuilt =>
    LET o == job.options
        args == job.args
    IN /\ \A k \in DOMAIN Switches :
            HasFlag(args, IF Switches[k] = "sourceMap" THEN "--sourcemap"
                          ELSE "--" \o Switches[k])
              => o[Switches[k]]
       /\ HasFlag(args, "--module") => TruthyString(o.module)
       /\ HasFlag(args, "--target") => TruthyString(o.target)
       /\ HasFlag(args, "--mapRoot") => TruthyPath(o.mapRoot)
       /\ HasFlag(args, "--sourceRoot") => TruthyPath(o.sourceRoot)
       /\ HasFlag(args, "--out") => TruthyPath(o.out)
       /\ HasFlag(args, "--outDir") <=> job.tempDestination # NoPath
       /\ job.tempDestination # NoPath =>
            /\ HasFlagValue(args, "--outDir", job.tempDestination)
            /\ TruthyPath(o.out) =>
                 HasFlagValue(args, "--out", resolve(job.tempDestination, o.out))
       /\ job.pc \notin {"called", "tsc"} =>
            /\ job.launched = args
            /\ HasFlagValue(job.launched, "--outDir", job.tempDestination)
            /\ job.tempDestination = TempDir

\* C13 witness: buildTscArguments has returned on an instance that has a
\* temporary destination and the out option, with one switch set, the others
\* not, and mapRoot the empty string.
C13_Witness ==
  /\ job.pc = "called"
  /\ job.tempDestination # NoPath
  /\ TruthyPath(job.options.out)
  /\ job.options.mapRoot = <<"">>
  /\ job.options.noLib /\ ~job.options.declaration
  /\ HasFlag(job.args, "--noLib")

\* A step in which a file goes through the output stage of an invocation
\* that has a function as path filter
FilterStep ==
  /\ job.pc = "output"
  /\ job'.enumerated # job.enumerated
  /\ job.options.pathFilter.type = "function"

\* The step publishes one file, with this path
Publishes(path) ==
  /\ Len(job'.published) = Len(job.published) + 1
  /\ SubSeq(job'.published, 1, Len(job.published)) = job.published
  /\ job'.published[Len(job'.published)].path = path

KeyNames(key) == Walk(<<>>, key, TRUE)
UnderKey(rel, key) ==
  LET names == KeyNames(key)
  IN /\ names # <<>>
     /\ Len(rel) > Len(names)
     /\ SubSeq(rel, 1, Len(names)) = names

\* The first pair of a mapping object whose key a relative path is under,
\* 0 if there is none
FirstUnder(rel, pairs) ==
  IF \E k \in DOMAIN pairs : UnderKey(rel, pairs[k].key)
    THEN CHOOSE k \in DOMAIN pairs :
           /\ UnderKey(rel, pairs[k].key)
           /\ \A h \in 1..(k - 1) : ~UnderKey(rel, pairs[h].key)
    ELSE 0

\* C15: with a mapping object as path filter, a file whose relative path is
\* under a key is published with the names of the first such key replaced
\* by the mapped value, a file under no key is published at the path it was
\* moved to, and every file that has gone through the stage was published
\* (unless a later transform threw).
C15_PrefixMapping ==
  (job.pc \in {"output", "done", "broken"} /\ job.options.pathFilter.type = "object"
     /\ job.last.kind # "none") =>
    LET pairs == job.options.pathFilter.pairs
        rel   == job.last.rel
        k     == FirstUnder(rel, pairs)
        file  == job.published[Len(job.published)]
    IN \/ job.last.kind = "throw"
       \/ /\ job.last.kind = "data"
          /\ file.originalPath = job.tempDestination \o rel
          /\ file.path =
               IF k = 0 THEN job.last.moved.path
               ELSE resolve(outputRoot(job),
                            pairs[k].val \o SubSeq(rel, Len(KeyNames(pairs[k].key)) + 1, Len(rel)))

\* C16: when the output stage publishes a source map that fixSourcemapPath
\* has rewritten, each entry of its sources, resolved against the directory
\* of the path the file is published with, is the path the entry tsc wrote
\* resolves to against the directory the file was emitted in.
C16_SourcesRoundTrip ==
  [][ ( /\ job.pc = "output"
        /\ Len(job'.published) = Len(job.published) + 1
        /\ \E k \in DOMAIN Chain(job) : Chain(job)[k] = "fixSourcemapPath"
        /\ Matches(job'.published[Len(job'.published)].path, ".js.map") ) =>
        LET file     == job'.published[Len(job'.published)]
            original == job'.last.contents.paths
        IN /\ file.originalPath = job.tempDestination \o job'.last.rel
           /\ Len(file.contents.paths) = Len(original)
           /\ \A k \in DOMAIN original :
                resolve(dirname(file.path), file.contents.paths[k])
                  = resolve(dirname(file.originalPath), original[k])
    ]_vars

\* C16 witness: a source map has been published in a directory of another
\* depth than the one it was emitted in, and its sources were rewritten.
C16_Witness ==
  /\ job.last.kind = "data"
  /\ job.published # <<>>
  /\ LET file == job.published[Len(job.published)]
     IN /\ Matches(file.path, ".js.map")
        /\ Len(file.path) # Len(file.originalPath)
        /\ file.contents.paths # job.last.contents.paths
        /\ file.contents.paths # <<>>

\* C17: between two turns of the event loop (no drain is in progress), the
\* flag is set only while an invocation is running, and callbacks are
\* queued only while the flag is set.
C17_FlagAndQueue ==
  stack = <<>> =>
    /\ Compiler.aborted => Compiler.running > 0
    /\ Compiler.abortCallbacks # <<>> => Compiler.aborted

\* C17 witness: abortAll has been called twice with a callback while
\* invocations were running; one of them has ended with the abort error,
\* one is still running, the flag is set and both callbacks are queued.
C17_Witness ==
  /\ Compiler.aborted
  /\ Compiler.running = 1
  /\ Len(Compiler.abortCallbacks) = 2
  /\ \E i \in Compilers : Ended(i) /\ inv[i].err = AbortError

\* C18: an invocation that was started while the flag was set waits for its
\* first check with the flag still set, or has failed with the abort error
\* having made no temporary directory, no tree keeper file, no argument
\* file and no process.
C18_StartedWhileAborted ==
  \A i \in Compilers :
    inv[i].startedAborted =>
      /\ Made(inv[i]) = Made(NewCompiler(inv[i].options))
      /\ OnDisk(inv[i]) = OnDisk(NewCompiler(inv[i].options))
      /\ \/ inv[i].pc = "check1" /\ Compiler.aborted /\ Compiler.running > 0
         \/ inv[i].pc \in {"output", "done"} /\ inv[i].err = AbortError
      /\ inv[i].observed.called => inv[i].observed.err = AbortError

\* C18 witness: an invocation started while the flag was set has failed at
\* its first check and called back, while the invocation that was running
\* when abortAll was called still runs its compiler.
C18_Witness ==
  \E i, j \in Compilers :
    /\ inv[i].startedAborted
    /\ inv[i].pc = "done"
    /\ inv[i].observed.err = AbortError
    /\ inv[j].pc = "tsc"
    /\ Compiler.aborted

\* The callbacks fired so far, those queued, and those a drain in progress
\* has still to call
FiredCallbacks == {Compiler.fired[k].cb : k \in DOMAIN Compiler.fired}
QueuedCallbacks == Range(Compiler.abortCallbacks)
PendingCallbacks == UNION {Range(stack[k].callbacks) : k \in DOMAIN stack}

\* C19: whatever the order of compile(), finish and abortAll calls, those
\* made by abort callbacks included: no callback is called twice; every
\* callback passed to abortAll has been called, is queued, or is about to
\* be called by a drain in progress, and only one of the three; the
\* callbacks of one drain are called in the order they were passed; and
\* between two turns with nothing running the queue is empty and every
\* callback passed has been called.
C19_EachCallbackOnce ==
  /\ \A k, h \in DOMAIN Compiler.fired :
       Compiler.fired[k].cb = Compiler.fired[h].cb => k = h
  /\ passed = FiredCallbacks \cup QueuedCallbacks \cup PendingCallbacks
  /\ FiredCallbacks \cap QueuedCallbacks = {}
  /\ FiredCallbacks \cap PendingCallbacks = {}
  /\ QueuedCallbacks \cap PendingCallbacks = {}
  /\ Len(Compiler.abortCallbacks) = Cardinality(QueuedCallbacks)
  /\ \A k, h \in DOMAIN Compiler.fired :
       (k < h /\ Compiler.fired[k].drain = Compiler.fired[h].drain) =>
         Compiler.fired[k].cb < Compiler.fired[h].cb
  /\ \A k \in DOMAIN stack : \A c \in Range(stack[k].callbacks) :
       \A h \in DOMAIN Compiler.fired :
         Compiler.fired[h].drain = stack[k].drain => Compiler.fired[h].cb < c
  /\ (stack = <<>> /\ Compiler.running = 0) =>
       /\ Compiler.abortCallbacks = <<>>
       /\ passed = FiredCallbacks

\* C19 witness: the callback fired by the last invocation's 'end' has called
\* abortAll with a second callback, which is executing, called by the drain
\* that abortAll started.
C19_Witness ==
  /\ Len(stack) = 2
  /\ stack[2].via = "end" /\ stack[2].current = 1
  /\ stack[1].via = "abortAll" /\ stack[1].current = 2
  /\ Compiler.fired = << [cb |-> 1, via |-> "end", drain |-> 1],
                         [cb |-> 2, via |-> "abortAll", drain |-> 2] >>

\* The step in which forEach calls an abort callback
FireStep == Len(Compiler'.fired) = Len(Compiler.fired) + 1

\* Every invocation that was started has run its cleanup
AllCleaned == \A i \in Compilers : Started(i) => "cleanup" \in Range(inv[i].events)

\* The drain runs inside emit('end') of invocation i: cleanup and 'end' are
\* done, the completion callback is still to be called
InsideEndOf(i) ==
  /\ i \in Compilers
  /\ inv[i].pc = "ending"
  /\ "cleanup" \in Range(inv[i].events)
  /\ Ended(i)
  /\ ~inv[i].observed.called

\* C20 as stated: whenever an abort callback is fired, running is 0, the flag
\* is false, every started invocation has run its cleanup, and the call is
\* made during the 'end' event of an invocation whose completion callback
\* has not been called yet.
C20_FiredAtLastEnd ==
  [][FireStep =>
       /\ Compiler.running = 0
       /\ ~Compiler.aborted
       /\ AllCleaned
       /\ stack[1].via = "end"
       /\ InsideEndOf(stack[1].owner)]_vars

\* C20, amended: the first callback of every drain is fired with running 0,
\* the flag false and every started invocation cleaned up, and so is every
\* later one unless an earlier callback of the same turn has called abortAll
\* or compile(); a drain entered from an 'end' handler fires inside that
\* invocation's emit('end'), before its completion callback; a drain
\* entered from abortAll with nothing running fires inside that call, and
\* is inside an 'end' event only if an abort callback made the call.
C20_FiredByDrain ==
  [][FireStep =>
       LET f == stack[1]
           bottom == stack[Len(stack)]
       IN /\ (f.count = 0 \/ ~f.reentered) =>
               /\ Compiler.running = 0
               /\ ~Compiler.aborted
               /\ AllCleaned
          /\ f.via = "end" => /\ InsideEndOf(f.owner)
                              /\ Len(stack) = 1
          /\ f.via = "abortAll" => /\ f.owner = 0
                                   /\ Len(stack) > 1 => f.reentered
          /\ bottom.via = "end" => InsideEndOf(bottom.owner)
          /\ bottom.via = "abortAll" =>
               \A i \in Compilers : inv[i].pc # "ending"]_vars

\* C20 witness: the callback queued while the invocation ran is executing,
\* fired from the invocation's emit('end') with running 0, the flag reset,
\* the cleanup done and the completion callback not yet called.
C20_Witness ==
  /\ Len(stack) = 1
  /\ stack[1].via = "end"
  /\ stack[1].current # NoCallback
  /\ stack[1].count = 1
  /\ InsideEndOf(stack[1].owner)
  /\ Compiler.running = 0
  /\ ~Compiler.aborted
  /\ AllCleaned
  /\ Compiler.fired # <<>>

====
